---- MODULE Spec2Model ----
(***************************************************************************)
(* Model of BeatSyncEngine.render (src/engine.py) as started by the        *)
(* service's /generate handler (src/main.py).                              *)
(*                                                                         *)
(* Times are counted in ticks of 1/TicksPerSec second.  TicksPerSec is a   *)
(* multiple of the frame rate and of 10, so one frame (1/30 s) and the     *)
(* 0.1 s guard margin are whole numbers of ticks and the code's            *)
(* int(t * fps), t_frame / fps and duration_frames / fps are exact.        *)
(* Lists are 1-based here (norm_1 is the code's norm_0.mp4).               *)
(***************************************************************************)
EXTENDS Integers, Sequences, FiniteSets, TLC

\* ---------------------------------------------------------------- constants
FPS == 30
Attempts == 10
TicksPerSec == FPS * 10
GuardMargin == TicksPerSec \div 10

\* ------------------------------------------------------------------- bounds
MaxBeats == 3
MaxAssets == 2

Jobs == {1, 2}
BeatTimes == {25, 45}
TotalDurations == {18, 57}
AssetDurations == {0, 35, 70}
Extensions == {"mp4", "txt"}
valid_extensions == {"mp4", "mov", "avi", "mkv"}

NoFile == [present |-> FALSE, beats |-> <<>>, duration |-> 0]

\* the marks of a beats file, in ascending or in descending time order
BeatLists ==
    UNION {{b \in [1..n -> BeatTimes] :
               \/ \A k \in 1..(n-1) : b[k] <= b[k+1]
               \/ \A k \in 1..(n-1) : b[k] >= b[k+1]} : n \in 0..MaxBeats}
BeatFiles == {NoFile} \cup
             {[present |-> TRUE, beats |-> b, duration |-> d] :
                 b \in BeatLists, d \in TotalDurations}
AssetDirs == UNION {[1..n -> Extensions] : n \in 0..MaxAssets}

VARIABLES
    pc,                 \* position of each render job
    err,                \* kind of the exception being propagated ("none" if none)
    beats_file,         \* content of the job's beats XML
    assets_dir,         \* sorted listing of the job's assets directory (extensions)
    output_file,        \* state of the file at the job's output path
    use_gpu,
    cuts, total_duration,
    asset_files,        \* indices of assets_dir that passed the extension filter
    norm_i,             \* index of the normalize loop
    normalized_assets,  \* asset -> probed duration of its normalized file
    current_frame,
    cut_i,              \* index of the cut loop
    usage_map,          \* asset -> sequence of <<start, end>>
    clip_files,
    assignments,        \* history: one record per committed (asset, start) choice
    calls,              \* history: the subprocess.run(cmd, check=True) invocations
                        \* (transcode, extract, concat) of the render call, in order
    probed,             \* history: get_video_info has run ffprobe in the render call
    temp_dir,           \* <project_dir>/temp_render, shared by all jobs
    render_cmd          \* <project_dir>/render_cmd.txt: job that wrote it last (0: none)

jobvars == <<pc, err, beats_file, assets_dir, output_file, use_gpu, cuts,
             total_duration, asset_files, norm_i, normalized_assets,
             current_frame, cut_i, usage_map, clip_files, assignments, calls, probed>>
vars == <<jobvars, temp_dir, render_cmd>>

\* ----------------------------------------------------------------- helpers
Max(a, b) == IF a >= b THEN a ELSE b

\* Python's int(n / d): truncation toward zero
PyInt(n, d) == IF n >= 0 THEN n \div d ELSE -((-n) \div d)

\* int(t * fps)
ToFrame(t) == PyInt(t * FPS, TicksPerSec)

\* frames / fps
FrameTime(f) == PyInt(f * TicksPerSec, FPS)

\* random.uniform(a, b): any value between the two ends, whichever is larger
Uniform(a, b) == IF a <= b THEN a..b ELSE b..a

\* random.shuffle(list(normalized_assets.keys()))
Shuffles(n) == {s \in [1..n -> 1..n] : \A a, b \in 1..n : a # b => s[a] # s[b]}

RECURSIVE SumFrames(_)
SumFrames(s) == IF s = <<>> THEN 0 ELSE Head(s).frames + SumFrames(Tail(s))

\* --------------------------------------------------------------- parse_beats
RECURSIVE InsertBeat(_, _)
InsertBeat(b, s) ==
    IF s = <<>> THEN <<b>>
    ELSE IF b.time <= Head(s).time THEN <<b>> \o s
    ELSE <<Head(s)>> \o InsertBeat(b, Tail(s))

\* the beats left in file order
SortBeatsNone(s) == s

\* beats.sort(key=lambda x: x['time']) (stable)
RECURSIVE SortBeats(_)
SortBeats(s) == IF s = <<>> THEN <<>> ELSE InsertBeat(Head(s), SortBeats(Tail(s)))

ReadBeats(f) == [k \in 1..Len(f.beats) |-> [index |-> k, time |-> f.beats[k]]]

MakeCuts(beats, total) ==
    [k \in 1..Len(beats) |->
        [index    |-> beats[k].index,
         start    |-> beats[k].time,
         duration |-> (IF k < Len(beats) THEN beats[k+1].time ELSE total) - beats[k].time]]

parse_beats(f) == MakeCuts(SortBeats(ReadBeats(f)), f.duration)

\* ------------------------------------------------------------ slot allocation
\* max_start without the guard margin
MaxStartNoGuard(assetDuration, duration_sec) == assetDuration - duration_sec

\* "max_start = asset_info['duration'] - duration_sec - 0.1"
MaxStart(assetDuration, duration_sec) == assetDuration - duration_sec - GuardMargin

\* "if max_start <= 0: continue"
CanHost(max_start) == max_start > 0

\* the overlap test with strict comparisons
OverlapsOpen(t, t_end, u) == (t < u[2]) /\ (t_end > u[1])

Overlaps(t, t_end, u) == (t <= u[2]) /\ (t_end >= u[1])

IsFree(t, duration_sec, used) ==
    \A k \in 1..Len(used) : ~Overlaps(t, t + duration_sec, used[k])

\* the draws left unaligned
RawDraws(max_start) == Uniform(0, max_start)

\* the frame-aligned values a draw "t = uniform(0, max_start); t = int(t*fps)/fps" can give
AlignedDraws(max_start) == {FrameTime(ToFrame(t)) : t \in Uniform(0, max_start)}

\* The results the loop "for _ in range(10)" over one asset can have: the first
\* draw that overlaps nothing, or no slot when every one of the draws overlapped.
TryAsset(assetDuration, duration_sec, used) ==
    LET max_start == MaxStart(assetDuration, duration_sec)
        draws     == AlignedDraws(max_start)
        free      == {t \in draws : IsFree(t, duration_sec, used)}
    IN  IF ~CanHost(max_start) THEN {[found |-> FALSE, start |-> -1]}
        ELSE {[found |-> TRUE, start |-> t] : t \in IF Attempts >= 1 THEN free ELSE {}}
             \cup (IF Attempts = 0 \/ draws \ free # {}
                   THEN {[found |-> FALSE, start |-> -1]} ELSE {})

\* "Try to find a clean slot": the candidates in shuffled order, stopping at the first hit
RECURSIVE CleanSlot(_, _, _, _)
CleanSlot(candidate_paths, assets, usage, duration_sec) ==
    IF candidate_paths = <<>> THEN {[asset |-> 0, start |-> -1, degraded |-> FALSE]}
    ELSE LET path == Head(candidate_paths)
             r    == TryAsset(assets[path], duration_sec, usage[path])
         IN  {[asset |-> path, start |-> x.start, degraded |-> FALSE] :
                  x \in {y \in r : y.found}}
             \cup (IF \E y \in r : ~y.found
                   THEN CleanSlot(Tail(candidate_paths), assets, usage, duration_sec)
                   ELSE {})

\* the fallback range without the clamp max(0, max_start)
FallbackRangeUnclamped(max_start) == Uniform(0, max_start)

\* the range the fallback draws its start from
FallbackRange(max_start) == Uniform(0, Max(0, max_start))

\* "Fallback": random.choice(candidate_paths), random frame-aligned start, no overlap check
Fallback(candidate_paths, assets, duration_sec) ==
    UNION {{[asset |-> candidate_paths[k], start |-> FrameTime(ToFrame(t)), degraded |-> TRUE] :
               t \in FallbackRange(MaxStart(assets[candidate_paths[k]], duration_sec))} :
           k \in 1..Len(candidate_paths)}

\* every (asset, start) one iteration of the cut loop can select
Select(candidate_paths, assets, usage, duration_sec) ==
    LET clean == CleanSlot(candidate_paths, assets, usage, duration_sec)
    IN  {a \in clean : a.asset # 0}
        \cup (IF \E a \in clean : a.asset = 0
              THEN Fallback(candidate_paths, assets, duration_sec) ELSE {})

\* the usage record left out
RecordUsageSkipped(usage, path, start, duration_sec) == usage

\* the usage record keeping the start only
RecordUsageStartOnly(usage, path, start, duration_sec) ==
    [usage EXCEPT ![path] = Append(@, <<start, start>>)]

\* "Record usage"
RecordUsage(usage, path, start, duration_sec) ==
    [usage EXCEPT ![path] = Append(@, <<start, start + duration_sec>>)]

\* --------------------------------------------------------------- file system
File(kind, n, owner) == [kind |-> kind, n |-> n, owner |-> owner]

HasFile(dir, kind, n) == dir.exists /\ \E f \in dir.files : f.kind = kind /\ f.n = n

\* a tool or open(..., 'w') writing <temp_dir>/<name>, replacing what was there
WriteFile(dir, kind, n, owner) ==
    [dir EXCEPT !.files = {f \in @ : ~(f.kind = kind /\ f.n = n)} \cup {File(kind, n, owner)}]

\* shutil.rmtree(self.temp_dir)
RmTree(dir) == [exists |-> FALSE, files |-> {}]

\* the cleanup left out
FinallyKeep(dir) == dir

\* "finally: if os.path.exists(self.temp_dir): shutil.rmtree(self.temp_dir)"
Finally(dir) == IF dir.exists THEN RmTree(dir) ELSE dir

\* --------------------------------------------------------------------- Init
InitJob(j, bf, ad, out) ==
    /\ pc = [k \in Jobs |-> "idle"]
    /\ err = [k \in Jobs |-> "none"]
    /\ beats_file = bf
    /\ assets_dir = ad
    /\ output_file = out
    /\ use_gpu = [k \in Jobs |-> TRUE]
    /\ cuts = [k \in Jobs |-> <<>>]
    /\ total_duration = [k \in Jobs |-> 0]
    /\ asset_files = [k \in Jobs |-> <<>>]
    /\ norm_i = [k \in Jobs |-> 0]
    /\ normalized_assets = [k \in Jobs |-> <<>>]
    /\ current_frame = [k \in Jobs |-> 0]
    /\ cut_i = [k \in Jobs |-> 0]
    /\ usage_map = [k \in Jobs |-> <<>>]
    /\ clip_files = [k \in Jobs |-> <<>>]
    /\ assignments = [k \in Jobs |-> <<>>]
    /\ calls = [k \in Jobs |-> <<>>]
    /\ probed = [k \in Jobs |-> FALSE]
    /\ render_cmd = 0

StaleDir == [exists |-> TRUE, files |-> {File("norm", 1, 0)}]
NoDir == [exists |-> FALSE, files |-> {}]

\* one render job (the command-line use of engine.py): any beats file, any
\* assets directory, a free output path, a scratch directory that is absent
\* or left over from a killed run
Init ==
    /\ \E bf \in BeatFiles, ad \in AssetDirs :
          InitJob(1, [k \in Jobs |-> IF k = 1 THEN bf ELSE NoFile],
                     [k \in Jobs |-> IF k = 1 THEN ad ELSE <<>>],
                     [k \in Jobs |-> "absent"])
    /\ temp_dir \in {NoDir, StaleDir}

\* ------------------------------------------------------------------ actions
\* the exception recorded but the loop left running
RaiseAndGoOn(j, kind) ==
    /\ err' = [err EXCEPT ![j] = kind]
    /\ UNCHANGED pc

\* an exception inside the try: control passes to the finally block
Raise(j, kind) ==
    /\ pc' = [pc EXCEPT ![j] = "finally"]
    /\ err' = [err EXCEPT ![j] = kind]

\* main.py: engine = BeatSyncEngine(current_dir); add_task(engine.render, ...)
StartRender(j) ==
    /\ pc[j] = "idle"
    /\ pc' = [pc EXCEPT ![j] = "start"]
    /\ \E gpu \in BOOLEAN : use_gpu' = [use_gpu EXCEPT ![j] = gpu]
    /\ UNCHANGED <<err, beats_file, assets_dir, output_file, cuts, total_duration,
                   asset_files, norm_i, normalized_assets, current_frame, cut_i,
                   usage_map, clip_files, assignments, calls, probed, temp_dir, render_cmd>>

\* "if os.path.exists(self.temp_dir): shutil.rmtree(self.temp_dir)"
CleanStale(j) ==
    /\ pc[j] = "start"
    /\ temp_dir' = IF temp_dir.exists THEN RmTree(temp_dir) ELSE temp_dir
    /\ pc' = [pc EXCEPT ![j] = "mkdir"]
    /\ UNCHANGED <<err, beats_file, assets_dir, output_file, use_gpu, cuts, total_duration,
                   asset_files, norm_i, normalized_assets, current_frame, cut_i,
                   usage_map, clip_files, assignments, calls, probed, render_cmd>>

\* "os.makedirs(self.temp_dir)", before the try: FileExistsError leaves render at once
MakeDirs(j) ==
    /\ pc[j] = "mkdir"
    /\ IF temp_dir.exists
       THEN /\ pc' = [pc EXCEPT ![j] = "failed"]
            /\ err' = [err EXCEPT ![j] = "os"]
            /\ UNCHANGED temp_dir
       ELSE /\ pc' = [pc EXCEPT ![j] = "parse"]
            /\ temp_dir' = [exists |-> TRUE, files |-> {}]
            /\ UNCHANGED err
    /\ UNCHANGED <<beats_file, assets_dir, output_file, use_gpu, cuts, total_duration,
                   asset_files, norm_i, normalized_assets, current_frame, cut_i,
                   usage_map, clip_files, assignments, calls, probed, render_cmd>>

\* "cuts, total_duration = self.parse_beats()"; ET.parse raises on a missing or broken file
ParseBeats(j) ==
    /\ pc[j] = "parse"
    /\ IF beats_file[j].present
       THEN /\ cuts' = [cuts EXCEPT ![j] = parse_beats(beats_file[j])]
            /\ total_duration' = [total_duration EXCEPT ![j] = beats_file[j].duration]
            /\ pc' = [pc EXCEPT ![j] = "assets"]
            /\ UNCHANGED err
       ELSE /\ Raise(j, "parse")
            /\ UNCHANGED <<cuts, total_duration>>
    /\ UNCHANGED <<beats_file, assets_dir, output_file, use_gpu,
                   asset_files, norm_i, normalized_assets, current_frame, cut_i,
                   usage_map, clip_files, assignments, calls, probed, temp_dir, render_cmd>>

\* the sorted glob filtered by valid_extensions
FilterAssets(dir) ==
    SelectSeq([k \in 1..Len(dir) |-> k], LAMBDA k : dir[k] \in valid_extensions)

\* "Get assets"; raise ValueError("No video assets found ...") when none is left
ListAssets(j) ==
    /\ pc[j] = "assets"
    /\ asset_files' = [asset_files EXCEPT ![j] = FilterAssets(assets_dir[j])]
    /\ IF FilterAssets(assets_dir[j]) = <<>>
       THEN /\ Raise(j, "config")
            /\ UNCHANGED <<norm_i, normalized_assets>>
       ELSE /\ pc' = [pc EXCEPT ![j] = "normalize"]
            /\ norm_i' = [norm_i EXCEPT ![j] = 1]
            /\ normalized_assets' = [normalized_assets EXCEPT ![j] = <<>>]
            /\ UNCHANGED err
    /\ UNCHANGED <<beats_file, assets_dir, output_file, use_gpu, cuts, total_duration,
                   current_frame, cut_i, usage_map, clip_files, assignments, calls,
                   probed, temp_dir, render_cmd>>

\* One iteration of "1. Normalize Assets": normalize_asset (with its probe of the
\* input on the GPU path and the switch to the CPU path when no dimensions come
\* back), then get_video_info(norm_path), whose failure gives duration 0.0.
Normalize(j) ==
    /\ pc[j] = "normalize"
    /\ norm_i[j] <= Len(asset_files[j])
    /\ \E dims_ok \in (IF use_gpu[j] THEN BOOLEAN ELSE {TRUE}), ok \in BOOLEAN :
          /\ use_gpu' = [use_gpu EXCEPT ![j] = @ /\ dims_ok]
          /\ IF ok /\ temp_dir.exists
             THEN \E d \in AssetDurations :
                    /\ temp_dir' = WriteFile(temp_dir, "norm", norm_i[j], j)
                    /\ normalized_assets' = [normalized_assets EXCEPT ![j] =
                           Append(@, [path |-> norm_i[j], duration |-> d])]
                    /\ norm_i' = [norm_i EXCEPT ![j] = @ + 1]
                    /\ calls' = [calls EXCEPT ![j] = Append(@, "transcode")]
                    /\ probed' = [probed EXCEPT ![j] = TRUE]
                    /\ UNCHANGED <<pc, err>>
             ELSE /\ Raise(j, "tool")
                  /\ calls' = [calls EXCEPT ![j] = Append(@, "transcode")]
                  /\ probed' = [probed EXCEPT ![j] = @ \/ use_gpu[j]]
                  /\ UNCHANGED <<temp_dir, normalized_assets, norm_i>>
    /\ UNCHANGED <<beats_file, assets_dir, output_file, cuts, total_duration, asset_files,
                   current_frame, cut_i, usage_map, clip_files, assignments, render_cmd>>

\* "2. Generate Cut List with Smart Selection": the set-up before the cut loop
BeginCuts(j) ==
    /\ pc[j] = "normalize"
    /\ norm_i[j] > Len(asset_files[j])
    /\ pc' = [pc EXCEPT ![j] = "cuts"]
    /\ current_frame' = [current_frame EXCEPT ![j] = 0]
    /\ usage_map' = [usage_map EXCEPT ![j] = [p \in 1..Len(normalized_assets[j]) |-> <<>>]]
    /\ clip_files' = [clip_files EXCEPT ![j] = <<>>]
    /\ cut_i' = [cut_i EXCEPT ![j] = 1]
    /\ UNCHANGED <<err, beats_file, assets_dir, output_file, use_gpu, cuts, total_duration,
                   asset_files, norm_i, normalized_assets, assignments, calls,
                   probed, temp_dir, render_cmd>>

\* the frame count taken from the cut's own duration, cut by cut
DurationFramesPerCut(cut, cursor) == ToFrame(cut.duration)

\* the cut's frame count: its end frame minus the running cursor
DurationFrames(cut, cursor) == ToFrame(cut.start + cut.duration) - cursor

AssetDurationOf(j) == [p \in 1..Len(normalized_assets[j]) |-> normalized_assets[j][p].duration]

\* One iteration of the cut loop: frame count, slot selection, usage record, create_clip
ProcessCut(j) ==
    /\ pc[j] = "cuts"
    /\ cut_i[j] <= Len(cuts[j])
    /\ LET cut              == cuts[j][cut_i[j]]
           target_end_frame == ToFrame(cut.start + cut.duration)
           duration_frames  == DurationFrames(cut, current_frame[j])
           duration_sec     == FrameTime(duration_frames)
           n                == Len(normalized_assets[j])
       IN  /\ current_frame' = [current_frame EXCEPT ![j] = target_end_frame]
           /\ IF duration_frames <= 0
              THEN /\ cut_i' = [cut_i EXCEPT ![j] = @ + 1]
                   /\ UNCHANGED <<pc, err, usage_map, clip_files, assignments, calls, temp_dir>>
              ELSE \E candidate_paths \in Shuffles(n) :
                   \E sel \in Select(candidate_paths, AssetDurationOf(j), usage_map[j], duration_sec) :
                   \E ok \in BOOLEAN :
                     /\ usage_map' = [usage_map EXCEPT ![j] =
                            RecordUsage(@, sel.asset, sel.start, duration_sec)]
                     /\ assignments' = [assignments EXCEPT ![j] =
                            Append(@, [cut |-> cut_i[j], index |-> cut.index,
                                       asset |-> sel.asset, start |-> sel.start,
                                       frames |-> duration_frames,
                                       duration_sec |-> duration_sec,
                                       degraded |-> sel.degraded])]
                     /\ calls' = [calls EXCEPT ![j] = Append(@, "extract")]
                     /\ IF ok /\ HasFile(temp_dir, "norm", normalized_assets[j][sel.asset].path)
                        THEN /\ temp_dir' = WriteFile(temp_dir, "clip", cut_i[j], j)
                             /\ clip_files' = [clip_files EXCEPT ![j] = Append(@, cut_i[j])]
                             /\ cut_i' = [cut_i EXCEPT ![j] = @ + 1]
                             /\ UNCHANGED <<pc, err>>
                        ELSE /\ Raise(j, "tool")
                             /\ UNCHANGED <<temp_dir, clip_files, cut_i>>
    /\ UNCHANGED <<beats_file, assets_dir, output_file, use_gpu, cuts, total_duration,
                   asset_files, norm_i, normalized_assets, probed, render_cmd>>

\* what a failed ffmpeg run can leave at its output path
FailedOutput(before) == {before, "partial"}

\* "3. Concat Clips": clips.txt, render_cmd.txt, then ffmpeg writing output_file itself
Concat(j) ==
    /\ pc[j] = "cuts"
    /\ cut_i[j] > Len(cuts[j])
    /\ pc' = [pc EXCEPT ![j] = "finally"]
    /\ IF ~temp_dir.exists
       THEN /\ err' = [err EXCEPT ![j] = "os"]
            /\ UNCHANGED <<temp_dir, render_cmd, calls, output_file>>
       ELSE /\ temp_dir' = WriteFile(temp_dir, "list", 0, j)
            /\ render_cmd' = j
            /\ calls' = [calls EXCEPT ![j] = Append(@, "concat")]
            /\ \E ok \in BOOLEAN :
                 IF /\ ok
                    /\ clip_files[j] # <<>>
                    /\ \A k \in 1..Len(clip_files[j]) : HasFile(temp_dir, "clip", clip_files[j][k])
                 THEN /\ output_file' = [output_file EXCEPT ![j] = "complete"]
                      /\ UNCHANGED err
                 ELSE /\ \E o \in FailedOutput(output_file[j]) :
                            output_file' = [output_file EXCEPT ![j] = o]
                      /\ err' = [err EXCEPT ![j] = "tool"]
    /\ UNCHANGED <<beats_file, assets_dir, use_gpu, cuts, total_duration, asset_files,
                   norm_i, normalized_assets, current_frame, cut_i, usage_map,
                   clip_files, assignments, probed>>

\* the finally block, then render returns or re-raises
Cleanup(j) ==
    /\ pc[j] = "finally"
    /\ temp_dir' = Finally(temp_dir)
    /\ pc' = [pc EXCEPT ![j] = IF err[j] = "none" THEN "done" ELSE "failed"]
    /\ UNCHANGED <<err, beats_file, assets_dir, output_file, use_gpu, cuts, total_duration,
                   asset_files, norm_i, normalized_assets, current_frame, cut_i,
                   usage_map, clip_files, assignments, calls, probed, render_cmd>>

Step(j) ==
    \/ StartRender(j)
    \/ CleanStale(j)
    \/ MakeDirs(j)
    \/ ParseBeats(j)
    \/ ListAssets(j)
    \/ Normalize(j)
    \/ BeginCuts(j)
    \/ ProcessCut(j)
    \/ Concat(j)
    \/ Cleanup(j)

Next == Step(1)

Spec == Init /\ [][Next]_vars

TypeOK ==
    /\ \A j \in Jobs : pc[j] \in {"idle", "start", "mkdir", "parse", "assets", "normalize",
                                  "cuts", "finally", "done", "failed"}
    /\ temp_dir.exists \in BOOLEAN

\* two render jobs of the service running in its thread pool, each with its own
\* beats file, session directory and fresh output path
JobBeats == [present |-> TRUE, beats |-> <<0>>, duration |-> 47]

InitJobs ==
    /\ InitJob(1, [k \in Jobs |-> JobBeats],
                  [k \in Jobs |-> <<"mp4">>],
                  [k \in Jobs |-> "absent"])
    /\ temp_dir = NoDir

NextJobs == \E j \in Jobs : Step(j)

SpecJobs == InitJobs /\ [][NextJobs]_vars

\* ------------------------------------------------------------------- claims
\* the cut loop of job j has run to its end
LoopDone(j) == cut_i[j] >= 1 /\ cut_i[j] > Len(cuts[j])

Floor(n, d) == n \div d
Round(n, d) == (2 * n + d) \div (2 * d)

MarksWithin(j) ==
    /\ Len(cuts[j]) >= 1
    /\ \A k \in 1..Len(cuts[j]) : 0 <= cuts[j][k].start /\ cuts[j][k].start <= total_duration[j]

C2_CleanIntervalsDisjoint ==
    \A j \in Jobs : \A a, b \in 1..Len(assignments[j]) :
        LET x == assignments[j][a]
            y == assignments[j][b]
        IN  (a < b /\ x.asset = y.asset /\ ~x.degraded /\ ~y.degraded) =>
                ~(x.start <= y.start + y.duration_sec /\ x.start + x.duration_sec >= y.start)

C2_Witness ==
    \E a, b \in 1..Len(assignments[1]) :
        /\ a < b
        /\ assignments[1][a].asset = assignments[1][b].asset
        /\ ~assignments[1][a].degraded
        /\ ~assignments[1][b].degraded
        /\ <<assignments[1][b].start, assignments[1][b].start + assignments[1][b].duration_sec>>
               = usage_map[1][assignments[1][b].asset][Len(usage_map[1][assignments[1][b].asset])]

\* C3: with more than one asset, a cut committed by the clean path never uses
\* the asset of the cut committed just before it.
C3_Variety ==
    \A j \in Jobs : \A a \in 2..Len(assignments[j]) :
        (Len(normalized_assets[j]) > 1 /\ ~assignments[j][a].degraded) =>
            assignments[j][a].asset # assignments[j][a-1].asset

\* the usage list of asset p as it was when assignment number a was chosen
RECURSIVE UsedBefore(_, _, _)
UsedBefore(j, a, p) ==
    IF a <= 1 THEN <<>>
    ELSE LET x == assignments[j][a-1]
         IN  UsedBefore(j, a-1, p) \o
             (IF x.asset = p THEN <<<<x.start, x.start + x.duration_sec>>>> ELSE <<>>)

Room(j, p, a) ==
    normalized_assets[j][p].duration - assignments[j][a].duration_sec - GuardMargin

\* some asset has no room for the cut of assignment a and another one has
Insufficiency(j, a) ==
    /\ \E p \in 1..Len(normalized_assets[j]) : Room(j, p, a) <= 0
    /\ \E p \in 1..Len(normalized_assets[j]) : Room(j, p, a) > 0

\* C4 (as stated): when an asset has maxStart <= 0 for a cut and another one
\* has maxStart > 0, the cut is committed to an asset with maxStart > 0,
\* whatever the usage map holds.
C4_PicksHostingAsset ==
    \A j \in Jobs : \A a \in 1..Len(assignments[j]) :
        Insufficiency(j, a) => Room(j, assignments[j][a].asset, a) > 0

\* C4 (amended): in that case the cut is committed to an asset with
\* maxStart > 0 whenever it is committed by the clean path, and it is committed
\* by the clean path whenever an asset with maxStart > 0 has an empty usage list.
C4_PicksHostingAssetIfFree ==
    \A j \in Jobs : \A a \in 1..Len(assignments[j]) :
        Insufficiency(j, a) =>
            /\ ~assignments[j][a].degraded => Room(j, assignments[j][a].asset, a) > 0
            /\ (\E p \in 1..Len(normalized_assets[j]) :
                    Room(j, p, a) > 0 /\ UsedBefore(j, a, p) = <<>>)
               => ~assignments[j][a].degraded

C4_Witness ==
    \E a \in 1..Len(assignments[1]) :
        /\ Insufficiency(1, a)
        /\ ~assignments[1][a].degraded
        /\ UsedBefore(1, a, assignments[1][a].asset) = <<>>
        /\ \E p \in 1..Len(normalized_assets[1]) :
              p < assignments[1][a].asset /\ Room(1, p, a) <= 0
        /\ Room(1, assignments[1][a].asset, a) > 0

\* the cut of assignment a is longer than every asset
Exhausted(j, a) ==
    \A p \in 1..Len(normalized_assets[j]) :
        assignments[j][a].duration_sec > normalized_assets[j][p].duration

\* C5: a cut longer than every asset is still committed, by the fallback, with
\* a start inside [0, duration of the chosen asset]; the selection step has a
\* result for every shuffle, so it raises nothing.
C5_ExhaustionFallback ==
    \A j \in Jobs :
        /\ \A a \in 1..Len(assignments[j]) :
              Exhausted(j, a) =>
                  /\ assignments[j][a].degraded
                  /\ 0 <= assignments[j][a].start
                  /\ assignments[j][a].start
                        <= normalized_assets[j][assignments[j][a].asset].duration
        /\ (pc[j] = "cuts" /\ cut_i[j] <= Len(cuts[j])) =>
              LET frames == DurationFrames(cuts[j][cut_i[j]], current_frame[j])
              IN  frames > 0 =>
                     \A s \in Shuffles(Len(normalized_assets[j])) :
                         Select(s, AssetDurationOf(j), usage_map[j], FrameTime(frames)) # {}

C5_Witness ==
    \E a \in 1..Len(assignments[1]) :
        /\ Exhausted(1, a)
        /\ assignments[1][a].degraded
        /\ normalized_assets[1][assignments[1][a].asset].duration > 0
        /\ "extract" \in {calls[1][k] : k \in 1..Len(calls[1])}

\* frame count of cut k of job j, from the cut list alone
EndFrameOf(j, k) == ((cuts[j][k].start + cuts[j][k].duration) * FPS) \div TicksPerSec
FramesOf(j, k) == EndFrameOf(j, k) - (IF k = 1 THEN 0 ELSE EndFrameOf(j, k-1))

RECURSIVE IntervalsOn(_, _, _)
IntervalsOn(j, p, n) ==
    IF n = 0 THEN <<>>
    ELSE IntervalsOn(j, p, n-1) \o
         (IF assignments[j][n].asset = p
          THEN <<<<assignments[j][n].start,
                   assignments[j][n].start + assignments[j][n].duration_sec>>>>
          ELSE <<>>)

\* C6: every cut the loop has passed has one assignment and one usage interval
\* if its frame count is positive and none otherwise, in cut order, for any
\* number of assets.
C6_OneAssignmentPerCut ==
    \A j \in Jobs : cut_i[j] >= 1 =>
        /\ \A a \in 1..Len(assignments[j]) :
              /\ assignments[j][a].cut \in 1..Len(cuts[j])
              /\ assignments[j][a].cut <= cut_i[j]
              /\ assignments[j][a].frames = FramesOf(j, assignments[j][a].cut)
              /\ assignments[j][a].frames > 0
              /\ assignments[j][a].asset \in 1..Len(normalized_assets[j])
              /\ a > 1 => assignments[j][a-1].cut < assignments[j][a].cut
        /\ \A k \in 1..Len(cuts[j]) :
              (k < cut_i[j]) =>
                  Cardinality({a \in 1..Len(assignments[j]) : assignments[j][a].cut = k})
                      = (IF FramesOf(j, k) > 0 THEN 1 ELSE 0)
        /\ \A p \in 1..Len(normalized_assets[j]) :
              usage_map[j][p] = IntervalsOn(j, p, Len(assignments[j]))

C6_Witness ==
    /\ pc[1] = "done"
    /\ Len(normalized_assets[1]) = 1
    /\ Len(assignments[1]) >= 2
    /\ Len(assignments[1]) < Len(cuts[1])
    /\ \E a \in 1..Len(assignments[1]) : assignments[1][a].degraded
    /\ \E a \in 1..Len(assignments[1]) : ~assignments[1][a].degraded

\* C7: once render has returned or raised, the scratch directory and all that
\* was in it are gone.
C7_ScratchRemoved ==
    \A j \in Jobs : pc[j] \in {"done", "failed"} =>
        ~temp_dir.exists /\ temp_dir.files = {}

C7_Witness ==
    /\ pc[1] = "failed"
    /\ err[1] = "tool"
    /\ Len(clip_files[1]) >= 1
    /\ Len(normalized_assets[1]) >= 1

\* C8: while a job runs, the scratch directory it made exists and holds every
\* norm and clip file the job has written, as the job wrote it.
C8_JobIsolation ==
    \A j \in Jobs :
        /\ pc[j] \in {"parse", "assets", "normalize", "cuts"} => temp_dir.exists
        /\ pc[j] \in {"normalize", "cuts"} =>
              /\ \A k \in 1..Len(normalized_assets[j]) : File("norm", k, j) \in temp_dir.files
              /\ \A k \in 1..Len(clip_files[j]) :
                    File("clip", clip_files[j][k], j) \in temp_dir.files

\* C9: a render that fails leaves at its output path what was there before.
C9_NoPartialOutput ==
    \A j \in Jobs : err[j] # "none" => output_file[j] \in {"absent", "previous"}

ConfigBad(j) ==
    \/ ~beats_file[j].present
    \/ beats_file[j].beats = <<>>
    \/ FilterAssets(assets_dir[j]) = <<>>

\* C10: with a missing or empty beat timeline, or no asset passing the
\* extension filter, render makes no tool invocation and ends in a
\* configuration error.
C10_ConfigErrorBeforeTools ==
    \A j \in Jobs : ConfigBad(j) =>
        /\ calls[j] = <<>>
        /\ ~probed[j]
        /\ pc[j] \in {"done", "failed"} => (pc[j] = "failed" /\ err[j] \in {"parse", "config"})

\* C11: an asset whose probe failed or gave duration zero is not in the asset
\* set the cut loop allocates from, no cut is committed to it, and the cut loop
\* is entered only when an asset of positive duration is left.
C11_BadAssetsDiscarded ==
    \A j \in Jobs :
        /\ pc[j] = "cuts" =>
              /\ \A p \in 1..Len(normalized_assets[j]) : normalized_assets[j][p].duration > 0
              /\ \A p \in DOMAIN usage_map[j] : normalized_assets[j][p].duration > 0
        /\ \A a \in 1..Len(assignments[j]) :
              normalized_assets[j][assignments[j][a].asset].duration > 0

CountCalls(j, kind) == Cardinality({k \in 1..Len(calls[j]) : calls[j][k] = kind})

\* the cuts of job j with a positive frame count, in cut order
PositiveCuts(j) ==
    SelectSeq([k \in 1..Len(cuts[j]) |-> k], LAMBDA k : FramesOf(j, k) > 0)

\* concat, once invoked, is the last invocation and comes after one transcode
\* per asset and one extract per cut of positive frame count, whose clips it
\* lists in cut order
ConcatOrdered(j) ==
    (\E k \in 1..Len(calls[j]) : calls[j][k] = "concat") =>
        /\ calls[j][Len(calls[j])] = "concat"
        /\ CountCalls(j, "concat") = 1
        /\ CountCalls(j, "transcode") = Len(asset_files[j])
        /\ Len(normalized_assets[j]) = Len(asset_files[j])
        /\ CountCalls(j, "extract") = Len(clip_files[j])
        /\ clip_files[j] = PositiveCuts(j)
        /\ \A a, b \in 1..Len(calls[j]) :
              (a < b /\ calls[j][a] = "extract") => calls[j][b] # "transcode"

\* C12: once a transcode, extract or concat invocation has failed, render
\* makes no further invocation; concat is invoked only after every asset was
\* normalized and every clip extracted, with the clips in cut order.
C12_ToolFailureFatalAndOrdered ==
    [][\A j \in Jobs :
          /\ err[j] # "none" => calls'[j] = calls[j]
          /\ (calls'[j] # calls[j] /\ err'[j] = "none") =>
                (pc'[j] \in {"normalize", "cuts"} \/ calls'[j][Len(calls'[j])] = "concat")
          /\ ConcatOrdered(j)']_vars

C12_Witness ==
    /\ pc[1] = "failed"
    /\ err[1] = "tool"
    /\ Len(asset_files[1]) = 2
    /\ Len(clip_files[1]) = 1
    /\ CountCalls(1, "extract") = 2
    /\ calls[1][Len(calls[1])] = "extract"

\* C13: the interval of a cut committed by the fallback is in the usage list of
\* its asset, and no cut committed later by the clean path to that asset
\* overlaps it (closed-interval test).
C13_FallbackUsageRecorded ==
    \A j \in Jobs : \A a \in 1..Len(assignments[j]) :
        LET x == assignments[j][a]
        IN  x.degraded =>
              /\ \E k \in 1..Len(usage_map[j][x.asset]) :
                    usage_map[j][x.asset][k] = <<x.start, x.start + x.duration_sec>>
              /\ \A b \in 1..Len(assignments[j]) :
                    LET y == assignments[j][b]
                    IN  (a < b /\ y.asset = x.asset /\ ~y.degraded) =>
                            (y.start > x.start + x.duration_sec
                             \/ y.start + y.duration_sec < x.start)

C13_Witness ==
    \E a, b \in 1..Len(assignments[1]) :
        /\ a < b
        /\ assignments[1][a].degraded
        /\ ~assignments[1][b].degraded
        /\ assignments[1][a].asset = assignments[1][b].asset
        /\ Len(usage_map[1][assignments[1][a].asset]) = 3

\* C14: a cut committed by the clean path starts on a frame boundary, at a
\* start in [0, maxStart] with maxStart = assetDuration - cutDuration - 0.1 > 0,
\* so that its window ends no later than assetDuration - 0.1.
C14_CleanStartInRange ==
    \A j \in Jobs : \A a \in 1..Len(assignments[j]) :
        LET x == assignments[j][a]
            d == normalized_assets[j][x.asset].duration
        IN  ~x.degraded =>
              /\ (x.start * FPS) % TicksPerSec = 0
              /\ d - x.duration_sec - GuardMargin > 0
              /\ 0 <= x.start
              /\ x.start <= d - x.duration_sec - GuardMargin
              /\ x.start + x.duration_sec <= d - GuardMargin

C14_Witness ==
    \E a \in 1..Len(assignments[1]) :
        /\ ~assignments[1][a].degraded
        /\ assignments[1][a].start > 0
        /\ assignments[1][a].start + assignments[1][a].duration_sec + GuardMargin
              = normalized_assets[1][assignments[1][a].asset].duration
        /\ \E p \in 1..Len(normalized_assets[1]) : Room(1, p, a) <= 0

\* the beats file of job j holds its marks out of time order
Unsorted(j) ==
    \E a, b \in 1..Len(beats_file[j].beats) :
        a < b /\ beats_file[j].beats[a] > beats_file[j].beats[b]

\* C15: the cut list holds every mark of the file once, in time order, each cut
\* ending where the next starts and the last at the total duration; the emitted
\* cuts have a positive frame count, the passed cuts without one are dropped,
\* and the emitted cuts are in time order, carry the index of their mark and
\* are no more than the marks.
C15_CutsSortedAndFiltered ==
    \A j \in Jobs : pc[j] \in {"assets", "normalize", "cuts", "finally", "done"} =>
        /\ Len(cuts[j]) = Len(beats_file[j].beats)
        /\ \A k \in 1..Len(cuts[j]) :
              /\ cuts[j][k].index \in 1..Len(beats_file[j].beats)
              /\ cuts[j][k].start = beats_file[j].beats[cuts[j][k].index]
              /\ \A m \in 1..Len(cuts[j]) : m # k => cuts[j][m].index # cuts[j][k].index
              /\ k < Len(cuts[j]) =>
                    /\ cuts[j][k].start <= cuts[j][k+1].start
                    /\ cuts[j][k].start + cuts[j][k].duration = cuts[j][k+1].start
              /\ k = Len(cuts[j]) =>
                    cuts[j][k].start + cuts[j][k].duration = total_duration[j]
        /\ Len(assignments[j]) <= Len(beats_file[j].beats)
        /\ \A a \in 1..Len(assignments[j]) :
              /\ assignments[j][a].frames > 0
              /\ assignments[j][a].index = cuts[j][assignments[j][a].cut].index
              /\ a > 1 =>
                    /\ assignments[j][a-1].cut < assignments[j][a].cut
                    /\ cuts[j][assignments[j][a-1].cut].start
                          <= cuts[j][assignments[j][a].cut].start
        /\ \A k \in 1..Len(cuts[j]) :
              (k < cut_i[j] /\ FramesOf(j, k) <= 0) =>
                  \A a \in 1..Len(assignments[j]) : assignments[j][a].cut # k

C15_Witness ==
    /\ pc[1] = "done"
    /\ Unsorted(1)
    /\ Len(assignments[1]) = 2
    /\ Len(cuts[1]) = 3
    /\ assignments[1][1].index > assignments[1][2].index

====
